---- MODULE Spec2Model ----
(***************************************************************************)
(* A model of the A32NX flight warning computer core (A32NX_FWC.js): the   *)
(* per-frame update() of the takeoff memo, the landing memo, the push      *)
(* buttons and the altitude alert, over the SimVar signal bus.             *)
(*                                                                         *)
(* JavaScript values: a field that may hold null/undefined/NaN is kept as  *)
(* a sequence, <<>> for the missing value and <<v>> for the value v.       *)
(* SimVars of unit "Bool" hold the numbers 0 and 1.                        *)
(* Time is counted in whole seconds.                                       *)
(***************************************************************************)
EXTENDS Integers, Sequences, FiniteSets, TLC

\* ------------------------------------------------------------------ values

\* null / undefined
Null == <<>>

\* NaN: equal to nothing, itself included, under === and !==
NaN == <<0, 0>>

\* a number, as opposed to null, undefined or NaN
IsNum(x) == Len(x) = 1

\* a !== b
StrictNotEqual(a, b) == a = NaN \/ b = NaN \/ a /= b

\* truthiness of a number that may be missing
NumTruthy(x) == IsNum(x) /\ x[1] /= 0

Some(v) == <<v>>

\* JavaScript truthiness of a nullable boolean field
Truthy(x) == x /= Null /\ x[1] = TRUE

\* what SimVar.SetSimVarValue(name, "Bool", b) leaves on the bus
SimBool(b) == IF b THEN 1 ELSE 0

\* if (SimVar.GetSimVarValue(name, "Bool")) ...
SimTruthy(n) == n /= 0

\* ------------------------------------------------------- the logic nodes
\* NXLogic_MemoryNode and NXLogic_ConfirmNode are used by A32NX_FWC.js but
\* defined elsewhere; they follow sections 3, 4.1, 4.2 and 5 of the
\* specification.

\* new NXLogic_MemoryNode(arg): a latch, false at construction.
NXLogic_MemoryNode(arg) == [output |-> FALSE]

\* MemoryNode.write(set, reset) with set and reset swapped in priority
MemoryNodeWrite_SetPriority(node, set, reset) ==
    [node EXCEPT !.output = IF set THEN TRUE
                            ELSE IF reset THEN FALSE
                            ELSE node.output]

\* MemoryNode.write(set, reset): reset wins over set, neither keeps the output.
MemoryNodeWrite(node, set, reset) ==
    [node EXCEPT !.output = IF reset THEN FALSE
                            ELSE IF set THEN TRUE
                            ELSE node.output]

\* new NXLogic_ConfirmNode(t, risingEdge)
NXLogic_ConfirmNode(t, risingEdge) ==
    [confirmation_duration |-> t, confirm_on_true |-> risingEdge,
     elapsed |-> 0, output |-> FALSE]

\* ConfirmNode.evaluate that keeps elapsed over a false input
ConfirmNodeWrite_NoReset(node, input, dt) ==
    LET cond == IF node.confirm_on_true THEN input ELSE ~input
        e    == node.elapsed + (IF dt > 0 THEN dt ELSE 0)
        conf == cond /\ e >= node.confirmation_duration
    IN  IF ~cond
        THEN [node EXCEPT !.output = IF node.confirm_on_true THEN FALSE ELSE TRUE]
        ELSE [node EXCEPT !.elapsed = e,
                          !.output = IF node.confirm_on_true THEN conf ELSE ~conf]

\* ConfirmNode.evaluate that confirms only once elapsed exceeds the duration
ConfirmNodeWrite_Strict(node, input, dt) ==
    LET cond == IF node.confirm_on_true THEN input ELSE ~input
        e    == node.elapsed + (IF dt > 0 THEN dt ELSE 0)
        conf == e > node.confirmation_duration
    IN  IF ~cond
        THEN [node EXCEPT !.elapsed = 0,
                          !.output = IF node.confirm_on_true THEN FALSE ELSE TRUE]
        ELSE [node EXCEPT !.elapsed = e,
                          !.output = IF node.confirm_on_true THEN conf ELSE ~conf]

\* ConfirmNode.evaluate that adds dt as it comes, negative or not
ConfirmNodeWrite_RawDt(node, input, dt) ==
    LET cond == IF node.confirm_on_true THEN input ELSE ~input
        e    == node.elapsed + dt
        conf == e >= node.confirmation_duration
    IN  IF ~cond
        THEN [node EXCEPT !.elapsed = 0,
                          !.output = IF node.confirm_on_true THEN FALSE ELSE TRUE]
        ELSE [node EXCEPT !.elapsed = e,
                          !.output = IF node.confirm_on_true THEN conf ELSE ~conf]

\* ConfirmNode.evaluate(input, dt): a false (polarity-adjusted) input resets
\* elapsed to zero and deasserts; a true one accumulates dt, a zero or
\* negative dt advancing no time, and asserts once elapsed >= duration.
ConfirmNodeWrite(node, input, dt) ==
    LET cond == IF node.confirm_on_true THEN input ELSE ~input
        e    == node.elapsed + (IF dt > 0 THEN dt ELSE 0)
        conf == e >= node.confirmation_duration
    IN  IF ~cond
        THEN [node EXCEPT !.elapsed = 0,
                          !.output = IF node.confirm_on_true THEN FALSE ELSE TRUE]
        ELSE [node EXCEPT !.elapsed = e,
                          !.output = IF node.confirm_on_true THEN conf ELSE ~conf]

\* ---------------------------------------------------------------- state

VARIABLES
    \* A32NX_FWC fields
    toConfigTest, flightPhaseEndedPulse, flightPhase, ldgMemo, toMemo,
    memoFlightPhaseInhibOvrd_memo,
    memoTo_conf01, memoTo_memo,
    memoLdgMemo_conf01, memoLdgMemo_memory1, memoLdgMemo_conf02,
    memoLdgMemo_below2000ft,
    warningPressed, cautionPressed,
    previousTargetAltitude,
    wasBellowThreshold, wasAboveThreshold, wasInRange, wasReach200ft,
    \* SimVars the core writes, or reads and clears
    L_A32NX_BTN_TOCONFIG, L_A32NX_BTN_RCL,
    L_PUSH_AUTOPILOT_MASTERAWARN_L, L_PUSH_AUTOPILOT_MASTERAWARN_R,
    L_PUSH_AUTOPILOT_MASTERCAUT_L, L_PUSH_AUTOPILOT_MASTERCAUT_R,
    L_A32NX_FWC_TOCONFIG, L_A32NX_FWC_RECALL, L_A32NX_FWC_INHIBOVRD,
    L_A32NX_FWC_TOMEMO, L_A32NX_FWC_LDGMEMO,
    L_A32NX_ALT_DEVIATION, L_A32NX_ALT_DEVIATION_SHORT,
    \* SimVars the core only reads, as sampled by the last update():
    \* a record with one field per SimVar
    sensors,
    \* the _deltaTime argument of the last update(), Null before the first
    deltaTime,
    \* history: the time (seconds of positive _deltaTime) for which both
    \* engines have had N1 >= 15 (runTo), and for which the radio height has
    \* been > 2200 (runLdg), on every update() since the last one where not;
    \* whether the TO CONFIG button has been read pressed in a frame of phase 2
    \* with no frame of phase 10, 3, 1 or 6 since (toConfigInTakeoff)
    runTo, runLdg, toConfigInTakeoff,
    \* history: how far the frames have followed a sequence of altitude
    \* deltas with no reset condition active. seqHold: 200, 200, 200, 300 ft on
    \* the first frames after construction (-1 once left); seqReturn: 150 then
    \* 600 ft with an autopilot engaged; seqOvershoot: 150, 900 then 500 ft
    seqHold, seqReturn, seqOvershoot,
    \* history: L:A32NX_ALT_DEVIATION_SHORT as the last update() found it
    shortBefore,
    \* A32NX_SoundManager.periodicList: a sequence of PeriodicSound records
    periodicList,
    \* history: the last call made on the sound manager, Null before the first
    lastCall

fwcVars ==
    <<toConfigTest, flightPhaseEndedPulse, flightPhase, ldgMemo, toMemo,
      memoFlightPhaseInhibOvrd_memo, memoTo_conf01, memoTo_memo,
      memoLdgMemo_conf01, memoLdgMemo_memory1, memoLdgMemo_conf02,
      memoLdgMemo_below2000ft, warningPressed, cautionPressed,
      previousTargetAltitude, wasBellowThreshold, wasAboveThreshold,
      wasInRange, wasReach200ft>>

outVars ==
    <<L_A32NX_FWC_TOCONFIG, L_A32NX_FWC_RECALL, L_A32NX_FWC_INHIBOVRD,
      L_A32NX_FWC_TOMEMO, L_A32NX_FWC_LDGMEMO,
      L_A32NX_ALT_DEVIATION, L_A32NX_ALT_DEVIATION_SHORT>>

masterVars ==
    <<L_PUSH_AUTOPILOT_MASTERAWARN_L, L_PUSH_AUTOPILOT_MASTERAWARN_R,
      L_PUSH_AUTOPILOT_MASTERCAUT_L, L_PUSH_AUTOPILOT_MASTERCAUT_R>>

histVars ==
    <<runTo, runLdg, toConfigInTakeoff, seqHold, seqReturn, seqOvershoot,
      shortBefore>>

soundVars == <<periodicList, lastCall>>

vars ==
    <<fwcVars, outVars, L_A32NX_BTN_TOCONFIG, L_A32NX_BTN_RCL, masterVars,
      sensors, deltaTime, histVars, soundVars>>

\* A32NX_FWC.aircraft is read by hasAltitudeConstraint() and never assigned.
aircraft == Null

\* The state after `new A32NX_FWC()`, on a bus whose L: variables are 0.
Init ==
    /\ toConfigTest = Null
    /\ flightPhaseEndedPulse = FALSE
    /\ flightPhase = Null
    /\ ldgMemo = Null
    /\ toMemo = Null
    /\ memoFlightPhaseInhibOvrd_memo = NXLogic_MemoryNode(FALSE)
    /\ memoTo_conf01 = NXLogic_ConfirmNode(120, TRUE)
    /\ memoTo_memo = NXLogic_MemoryNode(FALSE)
    /\ memoLdgMemo_conf01 = NXLogic_ConfirmNode(1, TRUE)
    /\ memoLdgMemo_memory1 = NXLogic_MemoryNode(FALSE)
    /\ memoLdgMemo_conf02 = NXLogic_ConfirmNode(10, TRUE)
    /\ memoLdgMemo_below2000ft = NXLogic_MemoryNode(TRUE)
    /\ warningPressed = FALSE
    /\ cautionPressed = FALSE
    /\ previousTargetAltitude = NaN
    /\ wasBellowThreshold = FALSE
    /\ wasAboveThreshold = FALSE
    /\ wasInRange = FALSE
    /\ wasReach200ft = FALSE
    /\ L_A32NX_BTN_TOCONFIG = 0
    /\ L_A32NX_BTN_RCL = 0
    /\ L_PUSH_AUTOPILOT_MASTERAWARN_L = 0
    /\ L_PUSH_AUTOPILOT_MASTERAWARN_R = 0
    /\ L_PUSH_AUTOPILOT_MASTERCAUT_L = 0
    /\ L_PUSH_AUTOPILOT_MASTERCAUT_R = 0
    /\ L_A32NX_FWC_TOCONFIG = 0
    /\ L_A32NX_FWC_RECALL = 0
    /\ L_A32NX_FWC_INHIBOVRD = 0
    /\ L_A32NX_FWC_TOMEMO = 0
    /\ L_A32NX_FWC_LDGMEMO = 0
    /\ L_A32NX_ALT_DEVIATION = 0
    /\ L_A32NX_ALT_DEVIATION_SHORT = 0
    /\ sensors = Null
    /\ deltaTime = Null
    /\ runTo = 0
    /\ runLdg = 0
    /\ toConfigInTakeoff = FALSE
    /\ seqHold = 0
    /\ seqReturn = 0
    /\ seqOvershoot = 0
    /\ shortBefore = 0
    /\ periodicList = <<>>
    /\ lastCall = Null

\* ------------------------------------------------------- _updateButtons

\* lines 50-56: the TO CONFIG button is consumed, toConfigTest follows it.
\* The result: the button SimVar, toConfigTest and L:A32NX_FWC_TOCONFIG.
ButtonToConfig_Sticky(btn, tct, fwcToConfig) ==
    IF SimTruthy(btn)
    THEN [btn |-> 0, toConfigTest |-> Some(TRUE), fwc |-> 1]
    ELSE [btn |-> btn, toConfigTest |-> tct, fwc |-> fwcToConfig]

ButtonToConfig(btn, tct, fwcToConfig) ==
    IF SimTruthy(btn)
    THEN [btn |-> 0, toConfigTest |-> Some(TRUE), fwc |-> 1]
    ELSE IF Truthy(tct)
         THEN [btn |-> btn, toConfigTest |-> Some(FALSE), fwc |-> fwcToConfig]
         ELSE [btn |-> btn, toConfigTest |-> tct, fwc |-> fwcToConfig]

\* the RECALL button read and not written back to 0
ButtonRecall_NoClear(btn, fwcRecall) ==
    IF SimTruthy(btn)
    THEN [btn |-> btn, fwc |-> 1, recall |-> TRUE]
    ELSE [btn |-> btn, fwc |-> fwcRecall, recall |-> FALSE]

\* the RECALL button consumed with `recall` left false
ButtonRecall_NoRecall(btn, fwcRecall) ==
    IF SimTruthy(btn)
    THEN [btn |-> 0, fwc |-> 1, recall |-> FALSE]
    ELSE [btn |-> btn, fwc |-> fwcRecall, recall |-> FALSE]

\* lines 58-63: the RECALL button is consumed.
\* The result: the button SimVar, L:A32NX_FWC_RECALL and the local `recall`.
ButtonRecall(btn, fwcRecall) ==
    IF SimTruthy(btn)
    THEN [btn |-> 0, fwc |-> 1, recall |-> TRUE]
    ELSE [btn |-> btn, fwc |-> fwcRecall, recall |-> FALSE]

\* lines 68-77: warningPressed / cautionPressed, the OR of the two buttons
MasterPressed_LeftOnly(left, right) == SimTruthy(left)

MasterPressed(left, right) == SimTruthy(left) \/ SimTruthy(right)

\* ---------------------------------------------------- _updateTakeoffMemo

setFlightPhaseMemo(phase, tct) == phase = 2 /\ Truthy(tct)

\* the reset set with the landing phase 7 added
resetFlightPhaseMemo_WithLanding(phase) ==
    phase = 10 \/ phase = 3 \/ phase = 1 \/ phase = 6 \/ phase = 7

resetFlightPhaseMemo(phase) ==
    phase = 10 \/ phase = 3 \/ phase = 1 \/ phase = 6

engNotRunning(n1) == n1 < 15

\* the timer input with one running engine being enough
toTimerInput_EitherEngine(n1_1, n1_2) ==
    ~engNotRunning(n1_1) \/ ~engNotRunning(n1_2)

toTimerInput(n1_1, n1_2) == ~engNotRunning(n1_1) /\ ~engNotRunning(n1_2)

toMemoValue(flightPhaseMemo, phase, toTimerElapsed) ==
    flightPhaseMemo \/ (phase = 2 /\ toTimerElapsed)

\* ---------------------------------------------------- _updateLandingMemo

radioHeightInvalid == FALSE

\* GEAR TOTAL PCT EXTENDED > 0.95, on whole numbers
gearDownlocked(pct) == 100 * pct > 95

setBelow2000ft(radioHeight) == radioHeight < 2000

\* the reset threshold at 2000 ft, with no band
resetBelow2000ft_NoBand(radioHeight) == radioHeight > 2000

resetBelow2000ft(radioHeight) == radioHeight > 2200

setLandingMemoInput_Always(radioHeight) == ~radioHeightInvalid

setLandingMemoInput(radioHeight) ==
    ~radioHeightInvalid /\ resetBelow2000ft(radioHeight)

\* the latch reset only in the phases the takeoff memo names
resetLandingMemo_NamedOnly(phase) ==
    phase = 10 \/ phase = 3 \/ phase = 1 \/ phase = 2

resetLandingMemo(phase) == ~(phase = 7 \/ phase = 8 \/ phase = 6)

showInApproach(memo1, memo2, phase) == memo1 /\ memo2 /\ phase = 6

invalidRadioInput(pct) == radioHeightInvalid /\ gearDownlocked(pct)

\* the landing memo without phase 7
ldgMemoValue_NoPhase7(inApproach, invalidRadioMemo, phase) ==
    inApproach \/ invalidRadioMemo \/ phase = 8

\* the landing memo in every phase from 7 on
ldgMemoValue_FromPhase7(inApproach, invalidRadioMemo, phase) ==
    inApproach \/ invalidRadioMemo \/ phase >= 7

ldgMemoValue(inApproach, invalidRadioMemo, phase) ==
    inApproach \/ invalidRadioMemo \/ phase = 8 \/ phase = 7

\* ------------------------------------------------ _updateAltitudeWarning

\* lines 210-217
hasAltitudeConstraint(managed, isConstraint) ==
    IF aircraft = Some("A320_NEO")
    THEN IF managed /\ isConstraint /= 0 THEN FALSE ELSE TRUE
    ELSE TRUE

\* line 141
targetAltitudeOf_ConstraintWins(currentAltitudeConstraint, currentFCUAltitude, hasConstraint) ==
    IF NumTruthy(currentAltitudeConstraint)
    THEN currentAltitudeConstraint
    ELSE currentFCUAltitude

targetAltitudeOf(currentAltitudeConstraint, currentFCUAltitude, hasConstraint) ==
    IF NumTruthy(currentAltitudeConstraint) /\ ~hasConstraint
    THEN currentAltitudeConstraint
    ELSE currentFCUAltitude

\* lines 160-165: the conditions under which the alert is inhibited
landingGearIsDown(flapsHandleIndex, gearHandle) ==
    flapsHandleIndex >= 1 /\ SimTruthy(gearHandle)

glideSlopeCaptured_Exclusive(verticalMode) ==
    verticalMode > 30 /\ verticalMode < 34

glideSlopeCaptured(verticalMode) == verticalMode >= 30 /\ verticalMode <= 34

\* GEAR POSITION:0 > 0.9, on whole numbers
landingGearIsLockedDown(gearPosition) == 10 * gearPosition > 9

isTcasResolutionAdvisoryActive(tcasState) == tcasState > 1

\* line 175: Math.abs(indicatedAltitude - targetAltitude), NaN when either
\* is not a number
AltDelta(indicatedAltitude, targetAltitude) ==
    IF IsNum(indicatedAltitude) /\ IsNum(targetAltitude)
    THEN LET d == indicatedAltitude[1] - targetAltitude[1]
         IN  Some(IF d < 0 THEN -d ELSE d)
    ELSE NaN

\* comparisons with a delta that may be NaN (every one false on NaN)
DeltaLt_OrEqual(delta, n) == IsNum(delta) /\ delta[1] <= n

DeltaLt(delta, n) == IsNum(delta) /\ delta[1] < n
DeltaGt(delta, n) == IsNum(delta) /\ delta[1] > n
DeltaLe(delta, n) == IsNum(delta) /\ delta[1] <= n
DeltaGe_Strict(delta, n) == IsNum(delta) /\ delta[1] > n

DeltaGe(delta, n) == IsNum(delta) /\ delta[1] >= n

\* lines 177-188: the history flags after a frame with this delta
AltHistory_NoReach(a, delta) ==
    LET a1 == IF DeltaLt(delta, 200)
              THEN [a EXCEPT !.wasBellowThreshold = TRUE,
                             !.wasAboveThreshold = FALSE]
              ELSE a
        a2 == IF DeltaGt(delta, 750)
              THEN [a1 EXCEPT !.wasAboveThreshold = TRUE,
                              !.wasBellowThreshold = FALSE]
              ELSE a1
    IN  IF DeltaGe(delta, 200) /\ DeltaLe(delta, 750)
        THEN [a2 EXCEPT !.wasInRange = TRUE]
        ELSE a2

AltHistory_KeepBelow(a, delta) ==
    LET a1 == IF DeltaLt(delta, 200)
              THEN [a EXCEPT !.wasBellowThreshold = TRUE,
                             !.wasAboveThreshold = FALSE,
                             !.wasReach200ft = TRUE]
              ELSE a
        a2 == IF DeltaGt(delta, 750)
              THEN [a1 EXCEPT !.wasAboveThreshold = TRUE]
              ELSE a1
    IN  IF DeltaGe(delta, 200) /\ DeltaLe(delta, 750)
        THEN [a2 EXCEPT !.wasInRange = TRUE]
        ELSE a2

AltHistory_KeepAbove(a, delta) ==
    LET a1 == IF DeltaLt(delta, 200)
              THEN [a EXCEPT !.wasBellowThreshold = TRUE,
                             !.wasReach200ft = TRUE]
              ELSE a
        a2 == IF DeltaGt(delta, 750)
              THEN [a1 EXCEPT !.wasAboveThreshold = TRUE,
                              !.wasBellowThreshold = FALSE]
              ELSE a1
    IN  IF DeltaGe(delta, 200) /\ DeltaLe(delta, 750)
        THEN [a2 EXCEPT !.wasInRange = TRUE]
        ELSE a2

AltHistory(a, delta) ==
    LET a1 == IF DeltaLt(delta, 200)
              THEN [a EXCEPT !.wasBellowThreshold = TRUE,
                             !.wasAboveThreshold = FALSE,
                             !.wasReach200ft = TRUE]
              ELSE a
        a2 == IF DeltaGt(delta, 750)
              THEN [a1 EXCEPT !.wasAboveThreshold = TRUE,
                              !.wasBellowThreshold = FALSE]
              ELSE a1
    IN  IF DeltaGe(delta, 200) /\ DeltaLe(delta, 750)
        THEN [a2 EXCEPT !.wasInRange = TRUE]
        ELSE a2

\* lines 190-207: the output branches, on the updated history flags
AltOutputs_NoAutopilotGuard(a, delta, ap1, ap2) ==
    IF a.wasBellowThreshold /\ a.wasReach200ft
    THEN IF DeltaGe(delta, 200)
         THEN [a EXCEPT !.dev = SimBool(TRUE)]
         ELSE IF DeltaLt(delta, 200)
              THEN [a EXCEPT !.dev = SimBool(FALSE)]
              ELSE a
    ELSE IF a.wasAboveThreshold /\ DeltaLe(delta, 750) /\ ~a.wasReach200ft
    THEN [a EXCEPT !.dev = SimBool(FALSE), !.short = SimBool(TRUE)]
    ELSE IF DeltaGt(delta, 750) /\ a.wasInRange /\ ~a.wasReach200ft
    THEN IF DeltaGt(delta, 750)
         THEN [a EXCEPT !.dev = SimBool(TRUE)]
         ELSE IF DeltaGe(delta, 750)
              THEN [a EXCEPT !.dev = SimBool(FALSE)]
              ELSE a
    ELSE a

AltOutputs_NoThirdBranch(a, delta, ap1, ap2) ==
    IF a.wasBellowThreshold /\ a.wasReach200ft
    THEN IF DeltaGe(delta, 200)
         THEN [a EXCEPT !.dev = SimBool(TRUE)]
         ELSE IF DeltaLt(delta, 200)
              THEN [a EXCEPT !.dev = SimBool(FALSE)]
              ELSE a
    ELSE IF a.wasAboveThreshold /\ DeltaLe(delta, 750) /\ ~a.wasReach200ft
    THEN IF ~SimTruthy(ap1) /\ ~SimTruthy(ap2)
         THEN [a EXCEPT !.dev = SimBool(FALSE), !.short = SimBool(TRUE)]
         ELSE a
    ELSE a

AltOutputs_Level(a, delta, ap1, ap2) ==
    IF a.wasBellowThreshold /\ a.wasReach200ft
    THEN IF DeltaGe(delta, 200)
         THEN [a EXCEPT !.dev = SimBool(TRUE)]
         ELSE IF DeltaLt(delta, 200)
              THEN [a EXCEPT !.dev = SimBool(FALSE)]
              ELSE a
    ELSE IF a.wasAboveThreshold /\ DeltaLe(delta, 750) /\ ~a.wasReach200ft
    THEN IF ~SimTruthy(ap1) /\ ~SimTruthy(ap2)
         THEN [a EXCEPT !.dev = SimBool(FALSE), !.short = SimBool(TRUE)]
         ELSE a
    ELSE IF DeltaGt(delta, 750) /\ a.wasInRange /\ ~a.wasReach200ft
    THEN IF DeltaGt(delta, 750)
         THEN [a EXCEPT !.dev = SimBool(TRUE)]
         ELSE IF DeltaGe(delta, 750)
              THEN [a EXCEPT !.dev = SimBool(FALSE)]
              ELSE a
    ELSE [a EXCEPT !.dev = SimBool(FALSE)]

AltOutputs(a, delta, ap1, ap2) ==
    IF a.wasBellowThreshold /\ a.wasReach200ft
    THEN IF DeltaGe(delta, 200)
         THEN [a EXCEPT !.dev = SimBool(TRUE)]
         ELSE IF DeltaLt(delta, 200)
              THEN [a EXCEPT !.dev = SimBool(FALSE)]
              ELSE a
    ELSE IF a.wasAboveThreshold /\ DeltaLe(delta, 750) /\ ~a.wasReach200ft
    THEN IF ~SimTruthy(ap1) /\ ~SimTruthy(ap2)
         THEN [a EXCEPT !.dev = SimBool(FALSE), !.short = SimBool(TRUE)]
         ELSE a
    ELSE IF DeltaGt(delta, 750) /\ a.wasInRange /\ ~a.wasReach200ft
    THEN IF DeltaGt(delta, 750)
         THEN [a EXCEPT !.dev = SimBool(TRUE)]
         ELSE IF DeltaGe(delta, 750)
              THEN [a EXCEPT !.dev = SimBool(FALSE)]
              ELSE a
    ELSE a

\* lines 121-124: a short alert of the frame before is taken back
ShortAlertCleared_Never(a) == a

ShortAlertCleared(a) ==
    IF a.short = 1 THEN [a EXCEPT !.short = SimBool(FALSE)] ELSE a

\* lines 119-208. a: the altitude fields of the FWC with the two SimVars
\* L:A32NX_ALT_DEVIATION (dev) and L:A32NX_ALT_DEVIATION_SHORT (short);
\* s: the sensors; pressed: this.warningPressed.
UpdateAltitudeWarning(a, s, pressed) ==
    LET a0 == ShortAlertCleared(a)
        a1 == IF s.IS_GROUNDED THEN [a0 EXCEPT !.dev = SimBool(FALSE)] ELSE a0
        targetAltitude ==
            targetAltitudeOf(s.L_A32NX_FG_ALTITUDE_CONSTRAINT,
                             s.AUTOPILOT_ALTITUDE_LOCK_VAR_3,
                             hasAltitudeConstraint(s.ALTITUDE_MANAGED,
                                 s.L_AP_CURRENT_TARGET_ALTITUDE_IS_CONSTRAINT))
        delta == AltDelta(s.INDICATED_ALTITUDE, targetAltitude)
    IN  IF pressed = TRUE
        THEN [a0 EXCEPT !.wasBellowThreshold = FALSE,
                        !.wasAboveThreshold = FALSE,
                        !.wasInRange = FALSE,
                        !.dev = SimBool(FALSE)]
        ELSE IF StrictNotEqual(a1.previousTargetAltitude, targetAltitude)
        THEN [a1 EXCEPT !.previousTargetAltitude = targetAltitude,
                        !.wasBellowThreshold = FALSE,
                        !.wasAboveThreshold = FALSE,
                        !.wasInRange = FALSE,
                        !.wasReach200ft = FALSE,
                        !.short = SimBool(FALSE),
                        !.dev = SimBool(FALSE)]
        ELSE IF \/ landingGearIsDown(s.L_A32NX_FLAPS_HANDLE_INDEX,
                                     s.GEAR_HANDLE_POSITION)
                \/ glideSlopeCaptured(s.L_A32NX_FMA_VERTICAL_MODE)
                \/ landingGearIsLockedDown(s.GEAR_POSITION_0)
                \/ isTcasResolutionAdvisoryActive(s.L_A32NX_TCAS_STATE)
        THEN [a1 EXCEPT !.wasBellowThreshold = FALSE,
                        !.wasAboveThreshold = FALSE,
                        !.wasInRange = FALSE,
                        !.wasReach200ft = FALSE,
                        !.short = SimBool(FALSE),
                        !.dev = SimBool(FALSE)]
        ELSE AltOutputs(AltHistory(a1, delta), delta,
                        s.L_A32NX_AUTOPILOT_1_ACTIVE,
                        s.L_A32NX_AUTOPILOT_2_ACTIVE)

\* ------------------------------------------- what a frame reads, restated

\* line 141 with hasAltitudeConstraint() as it returns (lines 210-217, with
\* this.aircraft never assigned): the target is the FCU altitude
TargetRead(s) == s.AUTOPILOT_ALTITUDE_LOCK_VAR_3

\* line 175, on numbers
DeltaRead(s) ==
    IF IsNum(s.INDICATED_ALTITUDE) /\ IsNum(TargetRead(s))
    THEN IF s.INDICATED_ALTITUDE[1] >= TargetRead(s)[1]
         THEN s.INDICATED_ALTITUDE[1] - TargetRead(s)[1]
         ELSE TargetRead(s)[1] - s.INDICATED_ALTITUDE[1]
    ELSE -1

\* lines 160-165: gear down with flaps out, glide slope captured, gear locked
\* down, or a TCAS resolution advisory
InhibitRead(s) ==
    \/ (s.L_A32NX_FLAPS_HANDLE_INDEX >= 1 /\ s.GEAR_HANDLE_POSITION /= 0)
    \/ s.L_A32NX_FMA_VERTICAL_MODE \in 30..34
    \/ 10 * s.GEAR_POSITION_0 > 9
    \/ s.L_A32NX_TCAS_STATE > 1

\* lines 69-70 and 126: a master warning button is read pressed
WarningRead ==
    L_PUSH_AUTOPILOT_MASTERAWARN_L /= 0 \/ L_PUSH_AUTOPILOT_MASTERAWARN_R /= 0

\* lines 72-73
CautionRead ==
    L_PUSH_AUTOPILOT_MASTERCAUT_L /= 0 \/ L_PUSH_AUTOPILOT_MASTERCAUT_R /= 0

\* a frame reading s finds no reset condition: no master warning button, a
\* numeric target equal to previousTargetAltitude, no inhibit condition
QuietRead(s) ==
    /\ ~WarningRead
    /\ IsNum(TargetRead(s))
    /\ previousTargetAltitude = TargetRead(s)
    /\ ~InhibitRead(s)

\* the same on the first frame after construction, when
\* previousTargetAltitude is still NaN
QuietFirstRead(s) ==
    /\ ~WarningRead
    /\ IsNum(TargetRead(s))
    /\ ~InhibitRead(s)

\* the sequences of deltas the history follows
HoldDeltas == <<200, 200, 200, 300>>

ReturnDeltas == <<150, 600>>

OvershootDeltas == <<150, 900, 500>>

\* the position in a sequence after a frame with delta d; ok: the frame is one
\* the sequence admits
SeqNext(pos, deltas, d, ok) ==
    IF ok /\ pos < Len(deltas) /\ d = deltas[pos + 1] THEN pos + 1
    ELSE IF ok /\ d = deltas[1] THEN 1
    ELSE 0

\* ----------------------------------------------------------------- bounds

\* update() is not called once a confirm node's elapsed would pass this
MaxElapsed == 180

\* ------------------------------------------------------------------ update

\* the seconds a frame adds to a run: none for a zero or negative _deltaTime
Advance(dt) == IF dt > 0 THEN dt ELSE 0

\* A32NX_FWC.update(_deltaTime), lines 34-43, on a bus whose read-only
\* SimVars hold s during the call: _resetPulses, the read of the flight
\* phase, _updateButtons, _updateTakeoffMemo, _updateLandingMemo and
\* _updateAltitudeWarning, in this order.
update(s, dt) ==
    \E phase \in {s.L_A32NX_FWC_FLIGHT_PHASE} :
    \* _updateButtons
    \E tc \in {ButtonToConfig(L_A32NX_BTN_TOCONFIG, toConfigTest,
                              L_A32NX_FWC_TOCONFIG)} :
    \E rc \in {ButtonRecall(L_A32NX_BTN_RCL, L_A32NX_FWC_RECALL)} :
        /\ sensors' = s
        /\ deltaTime' = Some(dt)
        \* _resetPulses
        /\ flightPhaseEndedPulse' = FALSE
        /\ flightPhase' = Some(phase)
        \* _updateButtons
        /\ L_A32NX_BTN_TOCONFIG' = tc.btn
        /\ toConfigTest' = tc.toConfigTest
        /\ L_A32NX_FWC_TOCONFIG' = tc.fwc
        /\ L_A32NX_BTN_RCL' = rc.btn
        /\ L_A32NX_FWC_RECALL' = rc.fwc
        /\ memoFlightPhaseInhibOvrd_memo' =
               MemoryNodeWrite(memoFlightPhaseInhibOvrd_memo, rc.recall,
                               flightPhaseEndedPulse')
        /\ L_A32NX_FWC_INHIBOVRD' = SimBool(memoFlightPhaseInhibOvrd_memo'.output)
        /\ warningPressed' = MasterPressed(L_PUSH_AUTOPILOT_MASTERAWARN_L,
                                           L_PUSH_AUTOPILOT_MASTERAWARN_R)
        /\ cautionPressed' = MasterPressed(L_PUSH_AUTOPILOT_MASTERCAUT_L,
                                           L_PUSH_AUTOPILOT_MASTERCAUT_R)
        /\ UNCHANGED masterVars
        \* _updateTakeoffMemo
        /\ memoTo_memo' =
               MemoryNodeWrite(memoTo_memo,
                               setFlightPhaseMemo(phase, toConfigTest'),
                               resetFlightPhaseMemo(phase))
        /\ memoTo_conf01' =
               ConfirmNodeWrite(memoTo_conf01,
                                toTimerInput(s.ENG_N1_RPM_1, s.ENG_N1_RPM_2), dt)
        /\ toMemo' = Some(toMemoValue(memoTo_memo'.output, phase,
                                      memoTo_conf01'.output))
        /\ L_A32NX_FWC_TOMEMO' = SimBool(toMemo'[1])
        \* _updateLandingMemo
        /\ memoLdgMemo_below2000ft' =
               MemoryNodeWrite(memoLdgMemo_below2000ft,
                               setBelow2000ft(s.RADIO_HEIGHT),
                               resetBelow2000ft(s.RADIO_HEIGHT))
        /\ memoLdgMemo_conf01' =
               ConfirmNodeWrite(memoLdgMemo_conf01,
                                setLandingMemoInput(s.RADIO_HEIGHT), dt)
        /\ memoLdgMemo_memory1' =
               MemoryNodeWrite(memoLdgMemo_memory1, memoLdgMemo_conf01'.output,
                               resetLandingMemo(phase))
        \* line 113 passes no _deltaTime
        /\ memoLdgMemo_conf02' =
               ConfirmNodeWrite(memoLdgMemo_conf02,
                                invalidRadioInput(s.GEAR_TOTAL_PCT_EXTENDED),
                                Null)
        /\ ldgMemo' = Some(ldgMemoValue(
                               showInApproach(memoLdgMemo_memory1'.output,
                                              memoLdgMemo_below2000ft'.output,
                                              phase),
                               memoLdgMemo_conf02'.output, phase))
        /\ L_A32NX_FWC_LDGMEMO' = SimBool(ldgMemo'[1])
        \* _updateAltitudeWarning
        /\ \E alt \in {UpdateAltitudeWarning(
                           [previousTargetAltitude |-> previousTargetAltitude,
                            wasBellowThreshold |-> wasBellowThreshold,
                            wasAboveThreshold |-> wasAboveThreshold,
                            wasInRange |-> wasInRange,
                            wasReach200ft |-> wasReach200ft,
                            dev |-> L_A32NX_ALT_DEVIATION,
                            short |-> L_A32NX_ALT_DEVIATION_SHORT],
                           s, warningPressed')} :
               /\ previousTargetAltitude' = alt.previousTargetAltitude
               /\ wasBellowThreshold' = alt.wasBellowThreshold
               /\ wasAboveThreshold' = alt.wasAboveThreshold
               /\ wasInRange' = alt.wasInRange
               /\ wasReach200ft' = alt.wasReach200ft
               /\ L_A32NX_ALT_DEVIATION' = alt.dev
               /\ L_A32NX_ALT_DEVIATION_SHORT' = alt.short
        \* history
        /\ runTo' = IF s.ENG_N1_RPM_1 >= 15 /\ s.ENG_N1_RPM_2 >= 15
                    THEN runTo + Advance(dt) ELSE 0
        /\ runLdg' = IF s.RADIO_HEIGHT > 2200
                     THEN runLdg + Advance(dt) ELSE 0
        /\ toConfigInTakeoff' =
               IF L_A32NX_BTN_TOCONFIG = 1 /\ phase = 2 THEN TRUE
               ELSE IF phase \in {10, 3, 1, 6} THEN FALSE
               ELSE toConfigInTakeoff
        /\ seqHold' =
               IF /\ seqHold >= 0
                  /\ seqHold < Len(HoldDeltas)
                  /\ DeltaRead(s) = HoldDeltas[seqHold + 1]
                  /\ IF sensors = Null THEN QuietFirstRead(s) ELSE QuietRead(s)
               THEN seqHold + 1
               ELSE -1
        /\ seqReturn' =
               SeqNext(seqReturn, ReturnDeltas, DeltaRead(s),
                       /\ QuietRead(s)
                       /\ (s.L_A32NX_AUTOPILOT_1_ACTIVE /= 0
                           \/ s.L_A32NX_AUTOPILOT_2_ACTIVE /= 0))
        /\ seqOvershoot' =
               SeqNext(seqOvershoot, OvershootDeltas, DeltaRead(s), QuietRead(s))
        /\ shortBefore' = L_A32NX_ALT_DEVIATION_SHORT
        \* the sound manager is another object
        /\ UNCHANGED soundVars
        \* the bound on the confirm nodes' clocks
        /\ memoTo_conf01'.elapsed <= MaxElapsed
        /\ memoTo_conf01'.elapsed >= -MaxElapsed
        /\ memoLdgMemo_conf01'.elapsed <= MaxElapsed
        /\ memoLdgMemo_conf01'.elapsed >= -MaxElapsed

\* ---------------------------------------------------------- other systems

\* the overhead/ECAM panel writes a push-button SimVar
PressToConfig ==
    /\ L_A32NX_BTN_TOCONFIG = 0
    /\ L_A32NX_BTN_TOCONFIG' = 1
    /\ UNCHANGED <<fwcVars, outVars, L_A32NX_BTN_RCL, masterVars, sensors,
                   deltaTime, histVars, soundVars>>

PressRecall ==
    /\ L_A32NX_BTN_RCL = 0
    /\ L_A32NX_BTN_RCL' = 1
    /\ UNCHANGED <<fwcVars, outVars, L_A32NX_BTN_TOCONFIG, masterVars,
                   sensors, deltaTime, histVars, soundVars>>

\* the glareshield's MASTER WARN / MASTER CAUT push buttons are pushed or
\* released: the four SimVars take one of the given settings
SetMasterButtons(settings) ==
    \E m \in settings :
        /\ m /= masterVars
        /\ L_PUSH_AUTOPILOT_MASTERAWARN_L' = m[1]
        /\ L_PUSH_AUTOPILOT_MASTERAWARN_R' = m[2]
        /\ L_PUSH_AUTOPILOT_MASTERCAUT_L' = m[3]
        /\ L_PUSH_AUTOPILOT_MASTERCAUT_R' = m[4]
        /\ UNCHANGED <<fwcVars, outVars, L_A32NX_BTN_TOCONFIG, L_A32NX_BTN_RCL,
                       sensors, deltaTime, histVars, soundVars>>

\* ------------------------------------------------------ A32NX_SoundManager

\* new PeriodicSound(sound, period), part_000 lines 1-7
PeriodicSound(sound, period) ==
    [sound |-> sound, period |-> period, timeSinceLastPlayed |-> NaN]

\* the property `name` of an object: undefined where it has none
NameOf(object) ==
    IF "name" \in DOMAIN object THEN object.name ELSE Null

\* line 23, period < sound.length: false on NaN
PeriodTooShort(sound, period) == IsNum(period) /\ period[1] < sound.length

\* lines 28-33: the forEach compares element.name, and the elements are
\* PeriodicSound objects
FoundInList(list, sound) ==
    \E i \in 1..Len(list) : NameOf(list[i]) = NameOf(sound)

\* lines 17-38
AddedTo(list, sound, period) ==
    IF FoundInList(list, sound) THEN list
    ELSE Append(list, PeriodicSound(sound,
                          IF PeriodTooShort(sound, period)
                          THEN Some(sound.length) ELSE period))

\* Array.prototype.splice(i, 1), i counted from 0
Splice(list, i) ==
    [k \in 1..(Len(list) - 1) |-> IF k <= i THEN list[k] ELSE list[k + 1]]

\* lines 45-49: the loop from index i on, which steps to i + 1 also after a
\* splice
RECURSIVE RemovedFrom(_, _, _)
RemovedFrom(list, sound, i) ==
    IF i >= Len(list) THEN list
    ELSE IF NameOf(list[i + 1].sound) = NameOf(sound)
         THEN RemovedFrom(Splice(list, i), sound, i + 1)
         ELSE RemovedFrom(list, sound, i + 1)

\* periodicList is not grown beyond this length
MaxSounds == 3

\* addPeriodicSound(sound, period); arg: Null or Some(sound)
addPeriodicSound(arg, period) ==
    /\ Len(periodicList) < MaxSounds
    /\ periodicList' = IF arg = Null THEN periodicList
                       ELSE AddedTo(periodicList, arg[1], period)
    /\ lastCall' = Some([op |-> "add", sound |-> arg])
    /\ UNCHANGED <<fwcVars, outVars, L_A32NX_BTN_TOCONFIG, L_A32NX_BTN_RCL,
                   masterVars, sensors, deltaTime, histVars>>

\* removePeriodicSound(sound); arg: Null or Some(sound)
removePeriodicSound(arg) ==
    /\ periodicList' = IF arg = Null THEN periodicList
                       ELSE RemovedFrom(periodicList, arg[1], 0)
    /\ lastCall' = Some([op |-> "remove", sound |-> arg])
    /\ UNCHANGED <<fwcVars, outVars, L_A32NX_BTN_TOCONFIG, L_A32NX_BTN_RCL,
                   masterVars, sensors, deltaTime, histVars>>

\* ------------------------------------------------------------- the inputs

\* the _deltaTime arguments tried: negative, zero, a step of which two reach
\* the 120 s of memoTo_conf01 exactly and three pass it, and one of 120 s
DeltaTimes == {-60, 0, 60, 120}

\* flight phases of the takeoff memo: the one that sets it (2), the four that
\* reset it (10, 3, 1, 6) and two that do neither (5, 7)
TakeoffPhases == {1, 2, 3, 5, 6, 7, 10}

\* flight phases of the landing memo: the three that keep its latch (6, 7, 8),
\* two that the takeoff memo names (2, 10) and two that no line of the core
\* names (5, 11)
LandingPhases == {2, 5, 6, 7, 8, 10, 11}

\* N1 of the two engines, around the 15 % threshold
N1Pairs == {<<15, 15>>, <<14, 15>>, <<15, 14>>, <<14, 14>>}

\* radio heights around and inside the 2000 - 2200 ft band
RadioHeights == {1999, 2000, 2001, 2200, 2201}

\* the read-only SimVars with the altitude alert at rest: on target, in
\* clean configuration, autopilot 1 engaged
SensorsAtRest(ph, n1_1, n1_2, rh) ==
    [L_A32NX_FWC_FLIGHT_PHASE |-> ph,
     ENG_N1_RPM_1 |-> n1_1,
     ENG_N1_RPM_2 |-> n1_2,
     RADIO_HEIGHT |-> rh,
     GEAR_TOTAL_PCT_EXTENDED |-> 0,
     INDICATED_ALTITUDE |-> Some(10000),
     IS_GROUNDED |-> FALSE,
     L_A32NX_FG_ALTITUDE_CONSTRAINT |-> Some(0),
     AUTOPILOT_ALTITUDE_LOCK_VAR_3 |-> Some(10000),
     ALTITUDE_MANAGED |-> FALSE,
     L_AP_CURRENT_TARGET_ALTITUDE_IS_CONSTRAINT |-> 0,
     L_A32NX_FLAPS_HANDLE_INDEX |-> 0,
     GEAR_HANDLE_POSITION |-> 0,
     L_A32NX_FMA_VERTICAL_MODE |-> 0,
     GEAR_POSITION_0 |-> 0,
     L_A32NX_TCAS_STATE |-> 0,
     L_A32NX_AUTOPILOT_1_ACTIVE |-> 1,
     L_A32NX_AUTOPILOT_2_ACTIVE |-> 0]

\* frames with the takeoff memo's inputs moving, at a radio height inside
\* the band
TakeoffSensors ==
    { SensorsAtRest(ph, n[1], n[2], 2100) : ph \in TakeoffPhases, n \in N1Pairs }

\* frames with the landing memo's inputs moving, with engine 1 below 15 %
LandingSensors ==
    { SensorsAtRest(ph, 14, 15, rh) : ph \in LandingPhases, rh \in RadioHeights }

\* the altitude alert's inputs, in flight phase 5 with engine 1 below 15 %:
\* d: the distance below the FCU altitude; ap: the two autopilots; cfg: flaps
\* handle, gear handle, vertical mode, gear position and TCAS state
AltSensors(d, fcu, grounded, ap, cfg) ==
    [SensorsAtRest(5, 14, 15, 2100) EXCEPT
         !.INDICATED_ALTITUDE = Some(10000 - d),
         !.AUTOPILOT_ALTITUDE_LOCK_VAR_3 = fcu,
         !.IS_GROUNDED = grounded,
         !.L_A32NX_AUTOPILOT_1_ACTIVE = ap[1],
         !.L_A32NX_AUTOPILOT_2_ACTIVE = ap[2],
         !.L_A32NX_FLAPS_HANDLE_INDEX = cfg[1],
         !.GEAR_HANDLE_POSITION = cfg[2],
         !.L_A32NX_FMA_VERTICAL_MODE = cfg[3],
         !.GEAR_POSITION_0 = cfg[4],
         !.L_A32NX_TCAS_STATE = cfg[5]]

\* clean configuration, no glide slope, no TCAS advisory
Clean == <<0, 0, 0, 0, 0>>

\* deltas inside 200 ft, on the edges of the 200 - 750 ft band, inside it and
\* beyond it
AltDeltas == {150, 199, 200, 300, 500, 600, 750, 751, 900}

\* the two autopilots: both off, one engaged, the other engaged
Autopilots == {<<0, 0>>, <<1, 0>>, <<0, 1>>}

\* configurations that inhibit the alert (flaps 1 with the gear handle down,
\* vertical modes 30 and 34, gear locked down, TCAS state 2) and two that do
\* not (flaps 1 with the gear handle up, TCAS state 1)
AltConfigs ==
    {<<1, 1, 0, 0, 0>>, <<1, 0, 0, 0, 0>>, <<0, 0, 30, 0, 0>>,
     <<0, 0, 34, 0, 0>>, <<0, 0, 0, 1, 0>>, <<0, 0, 0, 0, 2>>,
     <<0, 0, 0, 0, 1>>}

\* FCU altitudes other than 10000 ft: another selection, NaN and undefined
OtherTargets == {Some(11000), NaN, Null}

\* a flight-guidance altitude constraint of 9000 ft, with the autopilot
\* altitude managed on a constraint or not
WithConstraint(s, managed) ==
    [s EXCEPT !.L_A32NX_FG_ALTITUDE_CONSTRAINT = Some(9000),
              !.ALTITUDE_MANAGED = managed,
              !.L_AP_CURRENT_TARGET_ALTITUDE_IS_CONSTRAINT = SimBool(managed)]

\* frames of the altitude alert: in clean configuration in flight and on the
\* ground, with another target, in each configuration, and with an altitude
\* constraint
AltitudeSensors ==
    { AltSensors(d, Some(10000), grounded, ap, Clean) :
          d \in AltDeltas, grounded \in BOOLEAN, ap \in Autopilots }
    \cup { AltSensors(d, fcu, FALSE, <<0, 0>>, Clean) :
              d \in {150, 600}, fcu \in OtherTargets }
    \cup { AltSensors(d, Some(10000), FALSE, <<0, 0>>, cfg) :
              d \in {150, 600}, cfg \in AltConfigs }
    \cup { WithConstraint(AltSensors(600, Some(10000), FALSE, <<0, 0>>, Clean),
                          managed) : managed \in BOOLEAN }

\* frames for the master buttons: on target and 150 ft off it
MasterSensors ==
    { AltSensors(d, Some(10000), FALSE, <<1, 0>>, Clean) : d \in {0, 150} }

\* the settings of <<warning L, warning R, caution L, caution R>>
MasterSettings == {<<a, b, c, d>> : a, b, c, d \in {0, 1}}

WarningLeftSettings == {<<0, 0, 0, 0>>, <<1, 0, 0, 0>>}

\* GEAR TOTAL PCT EXTENDED: retracted and fully extended
GearExtensions == {0, 1}

\* frames with the gear moving, below, inside and above the radio height band
GearSensors ==
    { [SensorsAtRest(ph, 14, 15, rh) EXCEPT !.GEAR_TOTAL_PCT_EXTENDED = g] :
          ph \in LandingPhases, rh \in {1999, 2100, 2201},
          g \in GearExtensions }

\* two entries of soundList (part_000 lines 84-121), lengths in hundredths
\* of a second
Sounds ==
    {[name |-> Some("aural_pullup_new"), length |-> 90],
     [name |-> Some("aural_minimumnew"), length |-> 67]}

\* the sound argument: a sound, or null
SoundArgs == {Null} \cup {Some(s) : s \in Sounds}

\* the period argument: the default NaN, one shorter than both sounds and
\* one longer
Periods == {NaN, Some(50), Some(200)}

\* ----------------------------------------------------- the specifications

FrameTakeoff == \E s \in TakeoffSensors, dt \in DeltaTimes : update(s, dt)

FrameLanding == \E s \in LandingSensors, dt \in DeltaTimes : update(s, dt)

\* the takeoff memo and the push buttons
Next == FrameTakeoff \/ PressToConfig \/ PressRecall

Spec == Init /\ [][Next]_vars

\* the landing memo, with the TO CONFIG button
NextLdg == FrameLanding \/ PressToConfig

SpecLdg == Init /\ [][NextLdg]_vars

FrameAltitude == \E s \in AltitudeSensors : update(s, 60)

PressMasterWarning == SetMasterButtons(WarningLeftSettings)

\* the altitude alert, with the left master warning button
NextAlt == FrameAltitude \/ PressMasterWarning

SpecAlt == Init /\ [][NextAlt]_vars

FrameGear == \E s \in GearSensors, dt \in {0, 60} : update(s, dt)

\* the landing memo with the gear
NextGear == FrameGear

SpecGear == Init /\ [][NextGear]_vars

AddSound == \E arg \in SoundArgs, period \in Periods :
    addPeriodicSound(arg, period)

RemoveSound == \E arg \in SoundArgs : removePeriodicSound(arg)

\* the sound manager
NextSound == AddSound \/ RemoveSound

SpecSound == Init /\ [][NextSound]_vars

FrameMaster == \E s \in MasterSensors : update(s, 60)

PressMasterButtons == SetMasterButtons(MasterSettings)

\* the four master buttons
NextMaster == FrameMaster \/ PressMasterButtons

SpecMaster == Init /\ [][NextMaster]_vars

\* ---------------------------------------------------------------- steps

\* a step of another system: a push-button SimVar raised
ExternalStep ==
    \/ L_A32NX_BTN_TOCONFIG' > L_A32NX_BTN_TOCONFIG
    \/ L_A32NX_BTN_RCL' > L_A32NX_BTN_RCL
    \/ masterVars' /= masterVars

\* a step that is one update() call
FrameStep == ~ExternalStep /\ sensors' /= Null

\* what the last frame read
Phase == sensors.L_A32NX_FWC_FLIGHT_PHASE

RadioHeight == sensors.RADIO_HEIGHT

EnginesRunning == sensors.ENG_N1_RPM_1 >= 15 /\ sensors.ENG_N1_RPM_2 >= 15

\* the truth table of a set/reset latch with reset priority
Latch(prev, set, reset) ==
    IF set /\ ~reset THEN TRUE
    ELSE IF ~set /\ reset THEN FALSE
    ELSE IF ~set /\ ~reset THEN prev
    ELSE FALSE

\* --------------------------------------------------------------------- C1
\* C1: every MemoryNode.write(set, reset) of a frame follows the truth table,
\* for either prior output: (set, not reset) gives true, (not set, reset)
\* gives false, neither keeps the previous output, both give false; and the
\* value it returns (written to L:A32NX_FWC_INHIBOVRD for the inhibit latch)
\* is the new stored output. The four latches of the core are the instances;
\* memoLdgMemo_memory1 is the one whose set and reset can be true together.
C1_MemoryNodeTruthTable ==
    [][FrameStep =>
        /\ memoLdgMemo_memory1'.output =
               Latch(memoLdgMemo_memory1.output, memoLdgMemo_conf01'.output,
                     Phase' \notin {6, 7, 8})
        /\ memoLdgMemo_below2000ft'.output =
               Latch(memoLdgMemo_below2000ft.output, RadioHeight' < 2000,
                     RadioHeight' > 2200)
        /\ memoTo_memo'.output =
               Latch(memoTo_memo.output,
                     Phase' = 2 /\ L_A32NX_BTN_TOCONFIG = 1,
                     Phase' \in {10, 3, 1, 6})
        /\ memoFlightPhaseInhibOvrd_memo'.output =
               Latch(memoFlightPhaseInhibOvrd_memo.output,
                     L_A32NX_BTN_RCL = 1, FALSE)
        /\ L_A32NX_FWC_INHIBOVRD' =
               SimBool(memoFlightPhaseInhibOvrd_memo'.output)
    ]_vars

\* the last frame wrote set and reset together to memoLdgMemo_memory1 (radio
\* height confirmed above 2200 ft in a phase outside 6, 7, 8) while the
\* takeoff latch holds true
C1_Witness ==
    /\ sensors /= Null
    /\ memoLdgMemo_conf01.output
    /\ Phase \notin {6, 7, 8}
    /\ ~memoLdgMemo_memory1.output
    /\ memoTo_memo.output

\* --------------------------------------------------------------------- C2
\* C2: the output of the confirm node memoTo_conf01 (duration 120 s, confirm
\* on true) is true only if its input, both engines running, has been true on
\* every frame since the last false one and the time accumulated over that
\* run is at least 120 s; a frame with a false input leaves elapsed at zero,
\* and elapsed never counts more than the unbroken run.
C2_ConfirmOnlyAfterFullRun ==
    /\ memoTo_conf01.output => runTo >= 120
    /\ memoTo_conf01.elapsed = runTo
    /\ (sensors /= Null /\ ~EnginesRunning) =>
           (memoTo_conf01.elapsed = 0 /\ ~memoTo_conf01.output)

\* the node has confirmed
C2_Witness == memoTo_conf01.output /\ runTo >= 120

\* --------------------------------------------------------------------- C3
\* C3: with the input held true, the output of memoTo_conf01 is true from the
\* first frame at which the accumulated time reaches 120 s, no later, and on
\* every frame after it until one with a false input.
C3_ConfirmNoLaterThanDuration ==
    [][FrameStep =>
        /\ (EnginesRunning' /\ runTo' >= 120) => memoTo_conf01'.output
        /\ (EnginesRunning' /\ memoTo_conf01.output) => memoTo_conf01'.output
    ]_vars

\* the frame at which the run reaches 120 s exactly
C3_Witness ==
    /\ runTo = 120
    /\ deltaTime = Some(60)
    /\ memoTo_conf01.output

\* --------------------------------------------------------------------- C4
\* C4: a frame whose _deltaTime is zero or negative advances no time: with a
\* true input it leaves the elapsed value and the output of memoTo_conf01 as
\* they were.
C4_NonPositiveDeltaTimeAdvancesNothing ==
    [][(FrameStep /\ deltaTime'[1] <= 0 /\ EnginesRunning') =>
        /\ memoTo_conf01'.elapsed = memoTo_conf01.elapsed
        /\ memoTo_conf01'.output = memoTo_conf01.output
    ]_vars

\* a frame of negative _deltaTime in the middle of a run
C4_Witness ==
    /\ deltaTime = Some(-60)
    /\ EnginesRunning
    /\ memoTo_conf01.elapsed = 60

\* --------------------------------------------------------------------- C5
\* C5: when the TO CONFIG button is read pressed in a frame of phase 2, the
\* to-memo flag written in that frame is true, and it is true after every
\* following frame, toConfigTest reverted or not, until a frame of phase 10,
\* 3, 1 or 6.
C5_ToMemoLatchedByToConfig ==
    toConfigInTakeoff => (L_A32NX_FWC_TOMEMO = 1 /\ toMemo = Some(TRUE))

\* the flag still true in a later frame of another phase, toConfigTest false
C5_Witness ==
    /\ toConfigInTakeoff
    /\ toConfigTest = Some(FALSE)
    /\ Phase = 7
    /\ L_A32NX_FWC_TOMEMO = 1

\* --------------------------------------------------------------------- C6
\* C6: after every frame the to-memo flag is flight_phase_memo OR (phase = 2
\* AND to_timer_elapsed), and to_timer_elapsed is true only after both
\* engines have had N1 >= 15 on every frame of a run of at least 120 s: with
\* the latch false the flag is true only in phase 2 and only after that run.
C6_ToMemoOutput ==
    sensors /= Null =>
        /\ L_A32NX_FWC_TOMEMO =
               SimBool(memoTo_memo.output \/ (Phase = 2 /\ memoTo_conf01.output))
        /\ toMemo = Some(L_A32NX_FWC_TOMEMO = 1)
        /\ memoTo_conf01.output => (EnginesRunning /\ runTo >= 120)
        /\ (~memoTo_memo.output /\ L_A32NX_FWC_TOMEMO = 1) =>
               (Phase = 2 /\ EnginesRunning /\ runTo >= 120)

\* the flag true through the timer alone
C6_Witness ==
    /\ sensors /= Null
    /\ ~memoTo_memo.output
    /\ L_A32NX_FWC_TOMEMO = 1
    /\ runTo >= 120

\* --------------------------------------------------------------------- C7
\* the flight-phase codes that no comparison of the core names
UnnamedPhases == {5, 11}

\* C7, as claimed: in a frame whose flight-phase code is outside every set the
\* core names, the takeoff flight-phase memo, the landing-memo latch and the
\* two memo flags keep the value they had after the previous frame.
C7_UnknownPhaseKeepsEverything ==
    [][(FrameStep /\ sensors /= Null /\ Phase' \in UnnamedPhases) =>
        /\ memoTo_memo'.output = memoTo_memo.output
        /\ memoLdgMemo_memory1'.output = memoLdgMemo_memory1.output
        /\ L_A32NX_FWC_TOMEMO' = L_A32NX_FWC_TOMEMO
        /\ L_A32NX_FWC_LDGMEMO' = L_A32NX_FWC_LDGMEMO
    ]_vars

\* C7, amended: in such a frame the takeoff flight-phase memo keeps its value
\* and the to-memo flag is that value; the landing-memo latch is reset, as in
\* every phase outside 6, 7, 8, and the landing-memo flag is false.
C7_UnknownPhaseKeepsTakeoffLatchOnly ==
    [][(FrameStep /\ Phase' \in UnnamedPhases) =>
        /\ memoTo_memo'.output = memoTo_memo.output
        /\ L_A32NX_FWC_TOMEMO' = SimBool(memoTo_memo.output)
        /\ toMemo' = Some(memoTo_memo.output)
        /\ ~memoLdgMemo_memory1'.output
        /\ L_A32NX_FWC_LDGMEMO' = 0
        /\ ldgMemo' = Some(FALSE)
    ]_vars

\* a frame of phase 11 that kept the takeoff latch set, with the radio height
\* confirmed above 2200 ft and the landing latch reset all the same
C7_Witness ==
    /\ sensors /= Null
    /\ Phase = 11
    /\ memoTo_memo.output
    /\ L_A32NX_FWC_TOMEMO = 1
    /\ memoLdgMemo_conf01.output
    /\ ~memoLdgMemo_memory1.output

\* --------------------------------------------------------------------- C8
\* C8: the below-2000-ft latch has hysteresis: it turns true only in a frame
\* with radio height < 2000 and false only in a frame with radio height
\* > 2200, and a frame with a radio height in [2000, 2200] never changes it.
C8_Below2000ftHysteresis ==
    [][FrameStep =>
        /\ (memoLdgMemo_below2000ft'.output /\ ~memoLdgMemo_below2000ft.output)
               => RadioHeight' < 2000
        /\ (~memoLdgMemo_below2000ft'.output /\ memoLdgMemo_below2000ft.output)
               => RadioHeight' > 2200
        /\ (RadioHeight' >= 2000 /\ RadioHeight' <= 2200)
               => memoLdgMemo_below2000ft'.output = memoLdgMemo_below2000ft.output
    ]_vars

\* the latch still true at 2001 ft, after a frame below 2000 ft
C8_Witness ==
    /\ sensors /= Null
    /\ RadioHeight = 2001
    /\ memoLdgMemo_below2000ft.output

\* --------------------------------------------------------------------- C9
\* C9: after every frame the landing-memo flag on the bus is (landing latch
\* AND below_2000ft AND phase = 6) OR invalid_radio_memo OR phase in {7, 8};
\* it is true after every frame of phase 7 or 8, whatever the radio height
\* and the latches are.
C9_LdgMemoOutput ==
    sensors /= Null =>
        /\ L_A32NX_FWC_LDGMEMO =
               SimBool(\/ /\ memoLdgMemo_memory1.output
                          /\ memoLdgMemo_below2000ft.output
                          /\ Phase = 6
                       \/ memoLdgMemo_conf02.output
                       \/ Phase \in {7, 8})
        /\ ldgMemo = Some(L_A32NX_FWC_LDGMEMO = 1)
        /\ Phase \in {7, 8} => L_A32NX_FWC_LDGMEMO = 1

\* the flag true in phase 7 above 2200 ft, with both latches false
C9_Witness ==
    /\ sensors /= Null
    /\ Phase = 7
    /\ RadioHeight = 2201
    /\ ~memoLdgMemo_below2000ft.output
    /\ L_A32NX_FWC_LDGMEMO = 1

\* -------------------------------------------------------------------- C10
\* C10: the TO CONFIG and RECALL button SimVars are consumed by the frame that
\* reads them: after every frame both are 0, and toConfigTest is true after a
\* frame exactly when that frame read the TO CONFIG button pressed, so one
\* press makes one pulse; L:A32NX_FWC_RECALL is raised only by a frame that
\* read the RECALL button pressed.
C10_ButtonsConsumed ==
    [][FrameStep =>
        /\ L_A32NX_BTN_TOCONFIG' = 0
        /\ L_A32NX_BTN_RCL' = 0
        /\ (toConfigTest' = Some(TRUE)) <=> (L_A32NX_BTN_TOCONFIG = 1)
        /\ (L_A32NX_FWC_RECALL' > L_A32NX_FWC_RECALL) => L_A32NX_BTN_RCL = 1
        /\ L_A32NX_BTN_RCL = 1 => L_A32NX_FWC_RECALL' = 1
    ]_vars

\* the frame after both buttons were pressed: both consumed, the pulse raised
C10_Witness ==
    /\ sensors /= Null
    /\ toConfigTest = Some(TRUE)
    /\ L_A32NX_FWC_RECALL = 1
    /\ L_A32NX_BTN_TOCONFIG = 0
    /\ L_A32NX_BTN_RCL = 0

\* -------------------------------------------------------------------- C11
\* a step in which update() has run: it has left something of the core, of
\* its outputs or of the sampled inputs changed
UpdateStep ==
    /\ sensors' /= Null
    /\ <<fwcVars, outVars, sensors, deltaTime, histVars>>' /=
           <<fwcVars, outVars, sensors, deltaTime, histVars>>

\* C11 as stated: a frame that reads a master warning or master caution
\* button signal set leaves that signal cleared on the bus.
C11_MasterButtonsCleared ==
    [][UpdateStep =>
          /\ (L_PUSH_AUTOPILOT_MASTERAWARN_L /= 0
                  => L_PUSH_AUTOPILOT_MASTERAWARN_L' = 0)
          /\ (L_PUSH_AUTOPILOT_MASTERAWARN_R /= 0
                  => L_PUSH_AUTOPILOT_MASTERAWARN_R' = 0)
          /\ (L_PUSH_AUTOPILOT_MASTERCAUT_L /= 0
                  => L_PUSH_AUTOPILOT_MASTERCAUT_L' = 0)
          /\ (L_PUSH_AUTOPILOT_MASTERCAUT_R /= 0
                  => L_PUSH_AUTOPILOT_MASTERCAUT_R' = 0)]_vars

\* C11, amended: a frame only reads the four master button signals and leaves
\* them as they are; after it warningPressed is the OR of the two warning
\* signals and cautionPressed the OR of the two caution signals, so that both
\* stay true frame after frame while a signal stays set.
C11_MasterButtonsAreLevels ==
    [][UpdateStep =>
          /\ masterVars' = masterVars
          /\ warningPressed' = WarningRead
          /\ cautionPressed' = CautionRead]_vars

\* a frame has read the right warning button and the left caution button
\* only, and both signals are still set after it
C11_Witness ==
    /\ warningPressed = TRUE
    /\ cautionPressed = TRUE
    /\ masterVars = <<0, 1, 1, 0>>

\* -------------------------------------------------------------------- C12
\* the four history flags of the altitude alert are all false
HistoryCleared ==
    /\ wasBellowThreshold = FALSE
    /\ wasAboveThreshold = FALSE
    /\ wasInRange = FALSE
    /\ wasReach200ft = FALSE

\* both outputs of the altitude alert are false
OutputsCleared ==
    /\ L_A32NX_ALT_DEVIATION = 0
    /\ L_A32NX_ALT_DEVIATION_SHORT = 0

\* C12 as stated: a frame that reads a master warning button pressed ends
\* with the four history flags false and both altitude outputs false.
C12_WarningResetsEverything ==
    [][UpdateStep /\ WarningRead => HistoryCleared' /\ OutputsCleared']_vars

\* what lines 126-132 do reset in such a frame: three history flags and both
\* outputs, with _wasReach200ft and previousTargetAltitude left as they were
C12_WarningResetsThreeFlags ==
    [][UpdateStep /\ WarningRead =>
          /\ wasBellowThreshold' = FALSE
          /\ wasAboveThreshold' = FALSE
          /\ wasInRange' = FALSE
          /\ OutputsCleared'
          /\ wasReach200ft' = wasReach200ft
          /\ previousTargetAltitude' = previousTargetAltitude]_vars

\* -------------------------------------------------------------------- C13
\* the target altitude a frame reading s computes differs (!==) from
\* previousTargetAltitude
TargetChanged(s) ==
    \/ previousTargetAltitude = NaN
    \/ TargetRead(s) = NaN
    \/ previousTargetAltitude /= TargetRead(s)

\* C13 as stated: a frame whose target altitude differs from
\* previousTargetAltitude ends with both outputs false, the four history flags
\* false and previousTargetAltitude equal to the new target, whatever the
\* state before it.
C13_TargetChangeResets ==
    [][UpdateStep /\ TargetChanged(sensors') =>
          /\ OutputsCleared'
          /\ HistoryCleared'
          /\ previousTargetAltitude' = TargetRead(sensors')]_vars

\* C13, amended: such a frame does so when no master warning button is read
\* pressed; with a button pressed the frame returns before it compares the
\* target and leaves previousTargetAltitude as it was.
C13_TargetChangeResetsUnlessWarning ==
    [][UpdateStep /\ TargetChanged(sensors') =>
          IF WarningRead
          THEN previousTargetAltitude' = previousTargetAltitude
          ELSE /\ OutputsCleared'
               /\ HistoryCleared'
               /\ previousTargetAltitude' = TargetRead(sensors')]_vars

\* a frame with no button pressed has read the new target 11000 ft, taken it
\* as previousTargetAltitude and reset the alert
C13_Witness ==
    /\ sensors /= Null
    /\ ~WarningRead
    /\ TargetRead(sensors) = Some(11000)
    /\ previousTargetAltitude = Some(11000)
    /\ warningPressed = FALSE
    /\ HistoryCleared
    /\ OutputsCleared

\* -------------------------------------------------------------------- C14
\* lines 177-188 restated: the history flags after a frame that evaluates the
\* delta d (a number), from the flags before it
HistoryFollows(d) ==
    /\ wasBellowThreshold' =
           (IF d < 200 THEN TRUE ELSE IF d > 750 THEN FALSE
            ELSE wasBellowThreshold)
    /\ wasAboveThreshold' =
           (IF d > 750 THEN TRUE ELSE IF d < 200 THEN FALSE
            ELSE wasAboveThreshold)
    /\ wasInRange' = (IF d >= 200 /\ d <= 750 THEN TRUE ELSE wasInRange)
    /\ wasReach200ft' = (IF d < 200 THEN TRUE ELSE wasReach200ft)

\* C14 as stated: a frame that reads the aircraft grounded ends with
\* L:A32NX_ALT_DEVIATION false, and being grounded changes none of the four
\* history flags: with no reset condition they follow the delta as in flight.
C14_GroundedForcesDeviationOff ==
    [][UpdateStep /\ sensors'.IS_GROUNDED =>
          /\ L_A32NX_ALT_DEVIATION' = 0
          /\ (QuietRead(sensors') => HistoryFollows(DeltaRead(sensors')))]_vars

\* the second half alone, which the frames do satisfy
C14_GroundedKeepsHistory ==
    [][UpdateStep /\ sensors'.IS_GROUNDED /\ QuietRead(sensors') =>
          HistoryFollows(DeltaRead(sensors'))]_vars

\* -------------------------------------------------------------------- C15
\* C15 as stated: L:A32NX_ALT_DEVIATION_SHORT is a pulse of one frame: a frame
\* that finds it true does not end with it true.
C15_ShortAlertNeverTwice ==
    ~(shortBefore = 1 /\ L_A32NX_ALT_DEVIATION_SHORT = 1)

\* branch 2 (lines 196-200) fires in a frame reading s: no reset condition,
\* the delta between 200 and 750 ft, coming from above 750 ft without having
\* been within 200 ft, both autopilots off
ShortAlertDue(s) ==
    /\ QuietRead(s)
    /\ DeltaRead(s) >= 200
    /\ DeltaRead(s) <= 750
    /\ wasAboveThreshold
    /\ ~wasReach200ft
    /\ s.L_A32NX_AUTOPILOT_1_ACTIVE = 0
    /\ s.L_A32NX_AUTOPILOT_2_ACTIVE = 0

\* C15, amended: a true short alert is never carried into the next frame: the
\* flag is true at the end of a frame exactly when branch 2 has fired in that
\* frame, which it does in every frame whose inputs keep it open.
C15_ShortAlertIsThisFramesPulse ==
    [][UpdateStep =>
          (L_A32NX_ALT_DEVIATION_SHORT' = 1 <=> ShortAlertDue(sensors'))]_vars

\* a frame has found the short alert true and, with autopilot 1 engaged and
\* no reset condition, has ended with it false
C15_Witness ==
    /\ shortBefore = 1
    /\ L_A32NX_ALT_DEVIATION_SHORT = 0
    /\ sensors /= Null
    /\ sensors.L_A32NX_AUTOPILOT_1_ACTIVE = 1
    /\ ~InhibitRead(sensors)
    /\ warningPressed = FALSE
    /\ TargetRead(sensors) = Some(10000)
    /\ wasAboveThreshold

\* -------------------------------------------------------------------- C16
\* C16: when the first frames after construction read, with no reset
\* condition, a delta of exactly 200 ft three times and then 300 ft,
\* L:A32NX_ALT_DEVIATION is false after each of these frames.
C16_HoldingAt200NeverAlerts ==
    seqHold \in 1..Len(HoldDeltas) => L_A32NX_ALT_DEVIATION = 0

\* the four frames have run: the last has read 300 ft and the monitor has
\* seen the band but never the inside of 200 ft
C16_Witness ==
    /\ seqHold = Len(HoldDeltas)
    /\ DeltaRead(sensors) = 300
    /\ wasInRange
    /\ ~wasReach200ft
    /\ L_A32NX_ALT_DEVIATION = 0

\* -------------------------------------------------------------------- C17
\* C17 as stated: with an autopilot engaged, the target unchanged and no reset
\* condition, a frame with a delta of 150 ft followed by one with 600 ft
\* never ends with L:A32NX_ALT_DEVIATION true.
C17_ReturnWithAutopilotNeverAlerts ==
    seqReturn \in 1..Len(ReturnDeltas) => L_A32NX_ALT_DEVIATION = 0

\* C17, amended: the frame with 150 ft ends with L:A32NX_ALT_DEVIATION false
\* and the frame with 600 ft ends with it true (branch 1), autopilot engaged.
C17_ReturnWithAutopilotAlerts ==
    /\ (seqReturn = 1 => L_A32NX_ALT_DEVIATION = 0)
    /\ (seqReturn = 2 => L_A32NX_ALT_DEVIATION = 1)

\* the two frames have run with autopilot 2 engaged, the second at 600 ft
C17_Witness ==
    /\ seqReturn = Len(ReturnDeltas)
    /\ DeltaRead(sensors) = 600
    /\ sensors.L_A32NX_AUTOPILOT_2_ACTIVE = 1
    /\ wasBellowThreshold
    /\ wasReach200ft

\* -------------------------------------------------------------------- C18
\* C18 as stated: with the target unchanged and no reset condition, frames
\* with deltas of 150, 900 and then 500 ft end with L:A32NX_ALT_DEVIATION
\* true.
C18_OvershootAlerts ==
    seqOvershoot = Len(OvershootDeltas) => L_A32NX_ALT_DEVIATION = 1

\* C18, amended: L:A32NX_ALT_DEVIATION is false after each of the three
\* frames.
C18_OvershootNeverAlerts ==
    seqOvershoot \in 1..Len(OvershootDeltas) => L_A32NX_ALT_DEVIATION = 0

\* the three frames have run, the last at 500 ft: the monitor has been above
\* 750 ft and in the band, and still holds _wasReach200ft
C18_Witness ==
    /\ seqOvershoot = Len(OvershootDeltas)
    /\ DeltaRead(sensors) = 500
    /\ wasAboveThreshold
    /\ wasInRange
    /\ wasReach200ft
    /\ L_A32NX_ALT_DEVIATION = 0

\* -------------------------------------------------------------------- C19
\* the frame reading s is the first after construction, or its target
\* altitude is NaN or undefined
FirstOrNoTarget(s) == sensors = Null \/ ~IsNum(TargetRead(s))

\* C19 as stated: the first frame after construction, and every frame whose
\* target altitude is NaN or undefined, ends with both outputs false and the
\* four history flags false, whatever it reads.
C19_NoTargetResets ==
    [][UpdateStep /\ FirstOrNoTarget(sensors') =>
          HistoryCleared' /\ OutputsCleared']_vars

\* such a frame fails to do so only with a master warning button pressed and
\* _wasReach200ft set, which the warning branch then leaves set (C12)
C19_NoTargetResetsButForReach ==
    [][UpdateStep /\ FirstOrNoTarget(sensors') =>
          \/ HistoryCleared' /\ OutputsCleared'
          \/ /\ WarningRead
             /\ wasReach200ft
             /\ wasReach200ft'
             /\ ~wasBellowThreshold' /\ ~wasAboveThreshold' /\ ~wasInRange'
             /\ OutputsCleared']_vars

\* -------------------------------------------------------------------- C20
\* C20: a frame with no master warning button pressed and the target
\* unchanged that reads the gear handle down with flaps out, or a vertical
\* mode from 30 to 34, or the gear position above 0.9, or a TCAS state above
\* 1, ends with the four history flags false and both outputs false: the
\* delta it reads (150 or 600 ft) leaves no trace in the flags.
C20_InhibitResets ==
    [][UpdateStep /\ ~WarningRead /\ ~TargetChanged(sensors')
          /\ InhibitRead(sensors') =>
          /\ HistoryCleared'
          /\ OutputsCleared'
          /\ previousTargetAltitude' = previousTargetAltitude]_vars

\* a frame in vertical mode 34, 150 ft from an unchanged target, has found
\* the short alert true and has ended with everything cleared
C20_Witness ==
    /\ sensors /= Null
    /\ sensors.L_A32NX_FMA_VERTICAL_MODE = 34
    /\ DeltaRead(sensors) = 150
    /\ warningPressed = FALSE
    /\ previousTargetAltitude = TargetRead(sensors)
    /\ shortBefore = 1
    /\ HistoryCleared
    /\ OutputsCleared

\* -------------------------------------------------------------------- C21
\* C21: in a frame that reaches the output branches (no reset condition),
\* when _wasBellowThreshold and _wasReach200ft are both true after the
\* history update, L:A32NX_ALT_DEVIATION ends true if the delta is >= 200 ft
\* and false if it is < 200 ft, and L:A32NX_ALT_DEVIATION_SHORT ends false.
C21_FirstBranchWins ==
    [][UpdateStep /\ QuietRead(sensors')
          /\ wasBellowThreshold' /\ wasReach200ft' =>
          /\ L_A32NX_ALT_DEVIATION' =
                 (IF DeltaRead(sensors') >= 200 THEN 1 ELSE 0)
          /\ L_A32NX_ALT_DEVIATION_SHORT' = 0]_vars

\* branch 1 has asserted the deviation on the edge of 200 ft, in a frame with
\* both autopilots off that found the deviation false
C21_Witness ==
    /\ sensors /= Null
    /\ DeltaRead(sensors) = 200
    /\ sensors.L_A32NX_AUTOPILOT_1_ACTIVE = 0
    /\ sensors.L_A32NX_AUTOPILOT_2_ACTIVE = 0
    /\ ~InhibitRead(sensors)
    /\ warningPressed = FALSE
    /\ wasBellowThreshold
    /\ wasReach200ft
    /\ L_A32NX_ALT_DEVIATION = 1
    /\ L_A32NX_ALT_DEVIATION_SHORT = 0

\* -------------------------------------------------------------------- C22
\* the conditions of branch 2 after the history update of a frame reading s,
\* but for the autopilots
SecondBranchOpen(s) ==
    /\ QuietRead(s)
    /\ wasAboveThreshold'
    /\ DeltaRead(s) <= 750
    /\ ~wasReach200ft'

\* both autopilots are read disengaged
AutopilotsOff(s) ==
    s.L_A32NX_AUTOPILOT_1_ACTIVE = 0 /\ s.L_A32NX_AUTOPILOT_2_ACTIVE = 0

\* C22: a frame ends with L:A32NX_ALT_DEVIATION_SHORT true only when
\* _wasAboveThreshold holds, the delta is <= 750 ft, _wasReach200ft is false
\* and both autopilots are off, and it then ends with L:A32NX_ALT_DEVIATION
\* false; with these conditions and an autopilot engaged the frame writes
\* neither: the short alert ends false and the deviation is as the frame
\* found it (false when grounded).
C22_ShortAlertOnlyWithAutopilotsOff ==
    [][UpdateStep =>
          /\ (L_A32NX_ALT_DEVIATION_SHORT' = 1 =>
                 /\ SecondBranchOpen(sensors')
                 /\ AutopilotsOff(sensors')
                 /\ L_A32NX_ALT_DEVIATION' = 0)
          /\ (SecondBranchOpen(sensors') /\ ~AutopilotsOff(sensors') =>
                 /\ L_A32NX_ALT_DEVIATION_SHORT' = 0
                 /\ L_A32NX_ALT_DEVIATION' =
                        (IF sensors'.IS_GROUNDED THEN 0
                         ELSE L_A32NX_ALT_DEVIATION))]_vars

\* branch 2 has been open with autopilot 1 engaged, in flight, in a frame
\* that found the deviation true: it is still true and no short alert is up
C22_Witness ==
    /\ sensors /= Null
    /\ DeltaRead(sensors) = 600
    /\ sensors.L_A32NX_AUTOPILOT_1_ACTIVE = 1
    /\ ~sensors.IS_GROUNDED
    /\ ~InhibitRead(sensors)
    /\ warningPressed = FALSE
    /\ previousTargetAltitude = TargetRead(sensors)
    /\ wasAboveThreshold
    /\ ~wasReach200ft
    /\ L_A32NX_ALT_DEVIATION = 1
    /\ L_A32NX_ALT_DEVIATION_SHORT = 0

\* -------------------------------------------------------------------- C23
\* C23: in a frame that reaches the output branches with a delta > 750 ft,
\* _wasInRange true and _wasReach200ft false (branches 1 and 2 are then
\* closed), L:A32NX_ALT_DEVIATION ends true.
C23_ThirdBranchAlerts ==
    [][UpdateStep /\ QuietRead(sensors')
          /\ DeltaRead(sensors') > 750
          /\ wasInRange' /\ ~wasReach200ft'
          /\ ~(wasBellowThreshold' /\ wasReach200ft')
          /\ ~(wasAboveThreshold' /\ DeltaRead(sensors') <= 750) =>
          L_A32NX_ALT_DEVIATION' = 1]_vars

\* branch 3 has asserted the deviation just beyond 750 ft, in flight
C23_Witness ==
    /\ sensors /= Null
    /\ DeltaRead(sensors) = 751
    /\ ~sensors.IS_GROUNDED
    /\ ~InhibitRead(sensors)
    /\ warningPressed = FALSE
    /\ previousTargetAltitude = TargetRead(sensors)
    /\ wasInRange
    /\ wasAboveThreshold
    /\ ~wasReach200ft
    /\ L_A32NX_ALT_DEVIATION = 1

\* -------------------------------------------------------------------- C24
\* C24: after a frame toConfigTest is true exactly when that frame has read
\* the TO CONFIG button pressed, so it is false again after the next frame
\* unless the button is pressed again; the takeoff memo of the same frame
\* sees it: in phase 2 the frame that consumes the button sets the latch.
C24_ToConfigTestLastsOneFrame ==
    [][FrameStep =>
          /\ Truthy(toConfigTest') = (L_A32NX_BTN_TOCONFIG = 1)
          /\ (L_A32NX_BTN_TOCONFIG = 1
                  /\ sensors'.L_A32NX_FWC_FLIGHT_PHASE = 2 =>
                  memoTo_memo'.output)]_vars

\* toConfigTest has been true and a frame of phase 2 without the button has
\* taken it back, with the takeoff latch still set from the press
C24_Witness ==
    /\ toConfigTest = Some(FALSE)
    /\ L_A32NX_BTN_TOCONFIG = 0
    /\ sensors /= Null
    /\ Phase = 2
    /\ memoTo_memo.output

\* -------------------------------------------------------------------- C25
\* C25: the latch memoLdgMemo_memory1 goes from false to true only in a frame
\* at whose end the radio height has been > 2200 ft for an unbroken run of at
\* least 1 s, and it is false after every frame of a phase other than 6, 7
\* and 8, the frames whose set input is true included.
C25_LandingLatchSetAndReset ==
    [][FrameStep =>
          /\ (memoLdgMemo_memory1'.output /\ ~memoLdgMemo_memory1.output =>
                 /\ runLdg' >= 1
                 /\ sensors'.RADIO_HEIGHT > 2200)
          /\ (sensors'.L_A32NX_FWC_FLIGHT_PHASE \notin {6, 7, 8} =>
                 ~memoLdgMemo_memory1'.output)]_vars

\* the latch is set in phase 6 after a run above 2200 ft
C25_Witness ==
    /\ sensors /= Null
    /\ Phase = 6
    /\ RadioHeight = 2201
    /\ runLdg >= 1
    /\ memoLdgMemo_conf01.output
    /\ memoLdgMemo_memory1.output

\* -------------------------------------------------------------------- C26
\* C26: after every frame _wasBellowThreshold and _wasAboveThreshold are not
\* both true, and _wasBellowThreshold implies _wasReach200ft.
C26_HistoryFlagsConsistent ==
    /\ ~(wasBellowThreshold /\ wasAboveThreshold)
    /\ (wasBellowThreshold => wasReach200ft)

\* the monitor has been within 200 ft and is now beyond 750 ft: the frame has
\* taken _wasBellowThreshold back and kept _wasReach200ft
C26_Witness ==
    /\ sensors /= Null
    /\ DeltaRead(sensors) = 900
    /\ wasAboveThreshold
    /\ ~wasBellowThreshold
    /\ wasReach200ft

\* -------------------------------------------------------------------- C27
\* C27: the frame that reads the RECALL button pressed ends with the inhibit
\* override latch and L:A32NX_FWC_INHIBOVRD true; no frame ends with
\* flightPhaseEndedPulse true, and no step takes the latch back once true.
C27_InhibitOverrideMonotone ==
    [][/\ (FrameStep /\ L_A32NX_BTN_RCL = 1 =>
              /\ memoFlightPhaseInhibOvrd_memo'.output
              /\ L_A32NX_FWC_INHIBOVRD' = 1)
       /\ (FrameStep => flightPhaseEndedPulse' = FALSE)
       /\ (memoFlightPhaseInhibOvrd_memo.output =>
              /\ memoFlightPhaseInhibOvrd_memo'.output
              /\ L_A32NX_FWC_INHIBOVRD' = 1)]_vars

\* the latch is true after at least two frames (an engine run of 180 s takes
\* two), with the button consumed
C27_Witness ==
    /\ memoFlightPhaseInhibOvrd_memo.output
    /\ L_A32NX_FWC_INHIBOVRD = 1
    /\ L_A32NX_BTN_RCL = 0
    /\ flightPhaseEndedPulse = FALSE
    /\ runTo >= 180

\* -------------------------------------------------------------------- C28
\* one of the three output branches writes L:A32NX_ALT_DEVIATION in a frame
\* reading s, by the history flags after their update
BranchWrites(s) ==
    \/ (wasBellowThreshold' /\ wasReach200ft')
    \/ (wasAboveThreshold' /\ DeltaRead(s) <= 750 /\ ~wasReach200ft'
           /\ AutopilotsOff(s))
    \/ (DeltaRead(s) > 750 /\ wasInRange' /\ ~wasReach200ft')

\* C28: in a frame read in flight, with no reset and no output branch
\* writing, L:A32NX_ALT_DEVIATION ends as the frame found it; a frame takes
\* it from true to false only by a reset, when grounded, by branch 1 with a
\* delta < 200 ft, or by branch 2 with both autopilots off.
C28_DeviationIsLatch ==
    [][UpdateStep =>
          /\ (QuietRead(sensors') /\ ~sensors'.IS_GROUNDED
                  /\ ~BranchWrites(sensors') =>
                  L_A32NX_ALT_DEVIATION' = L_A32NX_ALT_DEVIATION)
          /\ (L_A32NX_ALT_DEVIATION = 1 /\ L_A32NX_ALT_DEVIATION' = 0 =>
                  \/ ~QuietRead(sensors')
                  \/ sensors'.IS_GROUNDED
                  \/ (wasBellowThreshold' /\ wasReach200ft'
                         /\ DeltaRead(sensors') < 200)
                  \/ (SecondBranchOpen(sensors')
                         /\ AutopilotsOff(sensors')))]_vars

\* the deviation, asserted by branch 1, is held by a frame beyond 750 ft in
\* which no branch writes
C28_Witness ==
    /\ sensors /= Null
    /\ DeltaRead(sensors) = 900
    /\ ~sensors.IS_GROUNDED
    /\ ~InhibitRead(sensors)
    /\ warningPressed = FALSE
    /\ previousTargetAltitude = TargetRead(sensors)
    /\ wasReach200ft
    /\ wasAboveThreshold
    /\ L_A32NX_ALT_DEVIATION = 1

\* -------------------------------------------------------------------- C29
\* C29: after every frame the confirm node of the invalid radio height,
\* memoLdgMemo_conf02, is not asserted, and after a frame of a phase other
\* than 6, 7 and 8 the landing memo and L:A32NX_FWC_LDGMEMO are false, with
\* the gear retracted or extended and at any radio height.
C29_NoLandingMemoOutsideApproach ==
    sensors /= Null =>
        /\ ~memoLdgMemo_conf02.output
        /\ (Phase \notin {6, 7, 8} =>
               /\ ldgMemo = Some(FALSE)
               /\ L_A32NX_FWC_LDGMEMO = 0)

\* a frame of phase 10 with the gear fully extended, below 2000 ft, has set
\* the below-2000 ft latch and left the landing memo false
C29_Witness ==
    /\ sensors /= Null
    /\ Phase = 10
    /\ sensors.GEAR_TOTAL_PCT_EXTENDED = 1
    /\ RadioHeight = 1999
    /\ memoLdgMemo_below2000ft.output
    /\ ldgMemo = Some(FALSE)
    /\ L_A32NX_FWC_LDGMEMO = 0

\* ---------------------------------------------------------------- C30

\* C30: after any sequence of addPeriodicSound and removePeriodicSound calls,
\* periodicList holds at most one entry per sound name, and after
\* removePeriodicSound(s) with a sound s no entry of the list has s.name.
C30_OneEntryPerSoundName ==
    /\ \A i, j \in 1..Len(periodicList) :
           periodicList[i].sound.name = periodicList[j].sound.name => i = j
    /\ (/\ lastCall /= Null
        /\ lastCall[1].op = "remove"
        /\ lastCall[1].sound /= Null)
       => \A i \in 1..Len(periodicList) :
              periodicList[i].sound.name /= lastCall[1].sound[1].name

====
